---- MODULE Spec2Model ----
(***************************************************************************)
(* The cassette record/replay engine of the vendored vcr library           *)
(* (src/env/Lib/site-packages/vcr/cassette.py): the Cassette aggregate     *)
(* (exchange list, play counters, dirty and rewound flags, record mode,    *)
(* filters) and the CassetteContextDecorator lifecycle wrapper.            *)
(*                                                                         *)
(* Python values are modelled as follows.  A request is a record           *)
(* [method, uri]; the uri is the depth of its path (0 = "/", 1 = "/a",     *)
(* 2 = "/a/b").  NoneRequest is Python's None (the falsy result of a       *)
(* request filter).  A stored exchange is the pair <<request, response>>.  *)
(* What a call returns or raises is a record [kind, val] with kind         *)
(* "return" or "raise" and val a sequence of strings.  Indices into        *)
(* self.data are 0-based as in the source.                                 *)
(***************************************************************************)
EXTENDS Integers, Sequences, FiniteSets, TLC

VARIABLES
    kwargs,     \* the keyword arguments every Cassette is constructed with
    disk,       \* the persisted storage at the cassette's path
    cass,       \* holder -> the Cassette instance it holds, or NoCassette
    finish,     \* decorator object -> its __finish ("None" or "generator")
    patches,    \* decorator object -> patchers its generator's ExitStack holds
    active,     \* invocation -> is it inside the with-block of __call__
    last,       \* the last call made: what it was given and what it did
    filt,       \* the request handed from filter to filter (vcr/filters.py)
    ride        \* the ride API: its rides table, clock and last response

vars == <<kwargs, disk, cass, finish, patches, active, last, filt, ride>>

----------------------------------------------------------------------------
(* Bounds and input sets *)

\* longest exchange list explored for a directly used cassette
MaxData == 2
\* longest exchange list explored inside decorator scopes
MaxScopeData == 1
\* longest exchange list explored over faulty storage
MaxStorageData == 1

Request(m, u) == [method |-> m, uri |-> u]
NoneRequest == [method |-> "None", uri |-> -1]

RequestInputs == {Request("GET", 1), Request("POST", 1), Request("GET", 2)}
ExchangeInputs ==
    {<<Request("GET", 1), "r1">>, <<Request("POST", 1), "r2">>}
ScopeExchangeInputs == {<<Request("GET", 1), "r1">>}

RecordModes == {"once", "none", "all", "new_episodes"}
MatchOns == {{"uri", "method"}, {"uri"}}
RequestFilters == {"identity", "drop_post", "strip_segment"}
ResponseFilters == {"identity", "scrub"}

\* every record mode, matcher list and request filter; the response filter
\* is varied under the default matcher list and request filter
Configs ==
    {kw \in [record_mode : RecordModes, match_on : MatchOns,
             before_record_request : RequestFilters,
             before_record_response : ResponseFilters] :
        kw.before_record_response = "identity"
        \/ (kw.match_on = {"uri", "method"}
            /\ kw.before_record_request = "identity")}
ScopeConfigs ==
    [record_mode : {"once", "new_episodes"}, match_on : {{"uri", "method"}},
     before_record_request : {"identity"},
     before_record_response : {"identity"}]

Invocations == {"call1", "call2"}
Decorators == {"shared"} \cup Invocations
Holders == {"direct"} \cup Decorators
Patchers == {"httplib", "requests"}

----------------------------------------------------------------------------
(* Values *)

Returned(v) == [kind |-> "return", val |-> <<v>>]
ReturnedList(l) == [kind |-> "return", val |-> l]
Raised(e) == [kind |-> "raise", val |-> <<e>>]

NoCassette == [absent |-> TRUE]
NoFile == [exists |-> FALSE, requests |-> <<>>, responses |-> <<>>]
File(rs, ps) == [exists |-> TRUE, requests |-> rs, responses |-> ps]

Min(S) == CHOOSE i \in S : \A j \in S : i <= j

\* Python truthiness of what a request filter returns
Truthy(request) == request # NoneRequest

SeqsUpTo(S, n) == UNION {[1..k -> S] : k \in 0..n}

----------------------------------------------------------------------------
(* Configured callables *)

\* self._before_record_request: the configured callable, or lambda x: x
ApplyRequestFilter(f, request) ==
    CASE f = "identity" -> request
      [] f = "drop_post" ->
            IF request.method = "POST" THEN NoneRequest ELSE request
      [] f = "strip_segment" ->
            [request EXCEPT !.uri = IF @ > 0 THEN @ - 1 ELSE 0]

\* self._before_record_response: the configured callable, or lambda x: x
ApplyResponseFilter(g, response) ==
    CASE g = "identity" -> response
      [] g = "scrub" -> "r1"

\* matchers.requests_match: every configured dimension agrees
RequestsMatch(r1, r2, match_on) ==
    /\ ("uri" \in match_on) => (r1.uri = r2.uri)
    /\ ("method" \in match_on) => (r1.method = r2.method)

\* a comparator reads an attribute of the request; None has none
MatchRaises(request) == ~Truthy(request)

----------------------------------------------------------------------------
(* Cassette *)

\* Cassette.__init__
NewCassette(kw) ==
    [record_mode |-> kw.record_mode,
     match_on |-> kw.match_on,
     before_record_request |-> kw.before_record_request,
     before_record_response |-> kw.before_record_response,
     data |-> <<>>,
     play_counts |-> <<>>,
     dirty |-> FALSE,
     rewound |-> FALSE]

\* Counter.__getitem__: a missing key reads as 0 and is not inserted
Count(play_counts, index) ==
    IF index \in DOMAIN play_counts THEN play_counts[index] ELSE 0

\* self.play_counts[index] += 1
Increment(play_counts, index) ==
    [k \in (DOMAIN play_counts) \cup {index} |->
        Count(play_counts, k) + (IF k = index THEN 1 ELSE 0)]

\* Cassette.play_count
play_count(c) ==
    LET RECURSIVE Sum(_)
        Sum(S) == IF S = {} THEN 0
                  ELSE LET k == CHOOSE x \in S : TRUE
                       IN c.play_counts[k] + Sum(S \ {k})
    IN Sum(DOMAIN c.play_counts)

\* write_protected with `or` bound tighter than `and`
write_protected_grouped(c) ==
    c.rewound /\ (c.record_mode = "once" \/ c.record_mode = "none")

\* Cassette.write_protected
write_protected(c) ==
    (c.rewound /\ c.record_mode = "once") \/ c.record_mode = "none"

\* append without the early return on a falsy filtered request
append_unchecked(c, request, response) ==
    [c EXCEPT
       !.data = Append(@,
           <<ApplyRequestFilter(c.before_record_request, request),
             ApplyResponseFilter(c.before_record_response, response)>>),
       !.dirty = TRUE]

\* Cassette.append
append(c, request, response) ==
    LET req == ApplyRequestFilter(c.before_record_request, request)
    IN IF ~Truthy(req) THEN c
       ELSE [c EXCEPT
               !.data = Append(@, <<req,
                   ApplyResponseFilter(c.before_record_response, response)>>),
               !.dirty = TRUE]

\* Cassette._responses: the indices it yields, in the order it yields them
\* (the set's ascending order), for an already filtered request
MatchingIndices(c, req) ==
    {i \in 0..(Len(c.data) - 1) :
        RequestsMatch(req, c.data[i + 1][1], c.match_on)}

\* Cassette._responses raises at its first comparison when the filtered
\* request is None and there is something to compare it with
ResponsesRaises(c, req) == MatchRaises(req) /\ Len(c.data) > 0

\* the first index the scan of play_response / __contains__ stops at
UnplayedMatches(c, req) ==
    {i \in MatchingIndices(c, req) : Count(c.play_counts, i) = 0}

\* play_response with its scan run from the last index down
play_response_highest(c, request) ==
    LET req == ApplyRequestFilter(c.before_record_request, request)
        Max(S) == CHOOSE i \in S : \A j \in S : i >= j
    IN IF ResponsesRaises(c, req)
       THEN [cassette |-> c, ret |-> Raised("AttributeError")]
       ELSE IF UnplayedMatches(c, req) # {}
       THEN LET index == Max(UnplayedMatches(c, req))
            IN [cassette |-> [c EXCEPT !.play_counts = Increment(@, index)],
                ret |-> Returned(c.data[index + 1][2])]
       ELSE [cassette |-> c, ret |-> Raised("UnhandledHTTPRequestError")]

\* play_response without the test of play_counts[index] == 0
play_response_replay(c, request) ==
    LET req == ApplyRequestFilter(c.before_record_request, request)
    IN IF ResponsesRaises(c, req)
       THEN [cassette |-> c, ret |-> Raised("AttributeError")]
       ELSE IF MatchingIndices(c, req) # {}
       THEN LET index == Min(MatchingIndices(c, req))
            IN [cassette |-> [c EXCEPT !.play_counts = Increment(@, index)],
                ret |-> Returned(c.data[index + 1][2])]
       ELSE [cassette |-> c, ret |-> Raised("UnhandledHTTPRequestError")]

\* Cassette.play_response
play_response(c, request) ==
    LET req == ApplyRequestFilter(c.before_record_request, request)
    IN IF ResponsesRaises(c, req)
       THEN [cassette |-> c, ret |-> Raised("AttributeError")]
       ELSE IF UnplayedMatches(c, req) # {}
       THEN LET index == Min(UnplayedMatches(c, req))
            IN [cassette |-> [c EXCEPT !.play_counts = Increment(@, index)],
                ret |-> Returned(c.data[index + 1][2])]
       ELSE [cassette |-> c, ret |-> Raised("UnhandledHTTPRequestError")]

\* Cassette.responses_of
responses_of(c, request) ==
    LET req == ApplyRequestFilter(c.before_record_request, request)
        RECURSIVE Collect(_)
        Collect(i) ==
            IF i >= Len(c.data) THEN <<>>
            ELSE (IF i \in MatchingIndices(c, req)
                  THEN <<c.data[i + 1][2]>> ELSE <<>>) \o Collect(i + 1)
    IN IF ResponsesRaises(c, req) THEN Raised("AttributeError")
       ELSE IF Collect(0) # <<>> THEN ReturnedList(Collect(0))
       ELSE Raised("UnhandledHTTPRequestError")

\* __contains__ that does not look at the play counts
contains_played(c, request) ==
    LET req == ApplyRequestFilter(c.before_record_request, request)
    IN IF ResponsesRaises(c, req) THEN Raised("AttributeError")
       ELSE IF MatchingIndices(c, req) # {} THEN Returned("True")
       ELSE Returned("False")

\* Cassette.__contains__: filters the request it is given (in _responses)
contains(c, request) ==
    LET req == ApplyRequestFilter(c.before_record_request, request)
    IN IF ResponsesRaises(c, req) THEN Raised("AttributeError")
       ELSE IF UnplayedMatches(c, req) # {} THEN Returned("True")
       ELSE Returned("False")

\* Cassette.can_play_response_for: `request in self` is given the filtered
\* request, which __contains__ filters again
can_play_response_for(c, request) ==
    LET req == ApplyRequestFilter(c.before_record_request, request)
    IN IF ~Truthy(req) THEN Returned("None")
       ELSE IF contains(c, req).kind = "raise" THEN contains(c, req)
       ELSE IF contains(c, req) = Returned("False") THEN Returned("False")
       ELSE IF c.record_mode = "all" THEN Returned("False")
       ELSE IF c.rewound THEN Returned("True") ELSE Returned("False")

IsTruthy(ret) == ret.kind = "return" /\ ret.val = <<"True">>

\* Cassette._as_dict, as persist.save_cassette writes it
as_dict(c) ==
    File([i \in 1..Len(c.data) |-> c.data[i][1]],
         [i \in 1..Len(c.data) |-> c.data[i][2]])

\* _save that tests self.dirty alone
save_unforced(c, force, d) ==
    IF c.dirty
    THEN [cassette |-> [c EXCEPT !.dirty = FALSE], disk |-> as_dict(c),
          did |-> {"write"}]
    ELSE [cassette |-> c, disk |-> d, did |-> {}]

\* Cassette._save
save(c, force, d) ==
    IF force \/ c.dirty
    THEN [cassette |-> [c EXCEPT !.dirty = FALSE], disk |-> as_dict(c),
          did |-> {"write"}]
    ELSE [cassette |-> c, disk |-> d, did |-> {}]

\* storage that exists at the path but cannot be opened for reading, or
\* whose content the serializer cannot parse
Unreadable ==
    [exists |-> TRUE, requests |-> <<>>, responses |-> <<>>,
     fault |-> "unreadable"]
Corrupt ==
    [exists |-> TRUE, requests |-> <<>>, responses |-> <<>>,
     fault |-> "corrupt"]
Fault(d) == IF "fault" \in DOMAIN d THEN d.fault ELSE "none"

\* persist.load_cassette: what opening and deserializing the path raises.
\* open() raises IOError for a missing path and for a path it may not read;
\* the serializer raises its own error on content it cannot parse.
load_cassette_error(d) ==
    IF ~d.exists THEN "IOError"
    ELSE IF Fault(d) = "unreadable" THEN "IOError"
    ELSE IF Fault(d) = "corrupt" THEN "DeserializeError"
    ELSE "none"

\* Cassette._load: zip(requests, responses) appended one by one
LoadPairs(c, d) ==
    LET n == IF Len(d.requests) <= Len(d.responses)
             THEN Len(d.requests) ELSE Len(d.responses)
        RECURSIVE Fold(_, _)
        Fold(cur, i) ==
            IF i > n THEN cur
            ELSE Fold(append(cur, d.requests[i], d.responses[i]), i + 1)
    IN Fold(c, 1)

\* load whose _load does not reset self.dirty after appending
load_dirty(kw, d) ==
    IF load_cassette_error(d) = "IOError" THEN NewCassette(kw)
    ELSE [LoadPairs(NewCassette(kw), d) EXCEPT !.rewound = TRUE]

\* _load's try block lets every exception but IOError through
load_raises(d) == load_cassette_error(d) \notin {"none", "IOError"}

\* Cassette.load: construct, then _load (`except IOError: pass`); defined
\* where load_raises(d) is false
load(kw, d) ==
    IF load_cassette_error(d) = "IOError" THEN NewCassette(kw)
    ELSE [LoadPairs(NewCassette(kw), d) EXCEPT
            !.dirty = FALSE, !.rewound = TRUE]

----------------------------------------------------------------------------
(* Request filters (vcr/filters.py).  A request handed to a filter is a
   record [method, headers, uri, body].  headers is a function from header
   name to value.  uri is [path, query], query being the sequence of
   <<key, value>> pairs in the order the URI spells them.  body is
   [kind, spaced, items]: kind is "stream" (a BytesIO), "json" or "form";
   items are the members of a JSON object or the '&'-separated segments of
   a form body, each [k, sep, v] with sep telling whether the segment has
   an '='; spaced tells JSON text written with the separators of
   json.dumps (", " and ": ") from compact text.  The empty byte string
   splits into the one segment EmptySegment. *)

\* longest query string and longest form body handed to a filter
MaxQuery == 2
MaxSegments == 3

Segment(k, sep, v) == [k |-> k, sep |-> sep, v |-> v]
EmptySegment == Segment("", FALSE, "")
StreamBody == [kind |-> "stream", spaced |-> FALSE, items |-> <<>>]
JsonBody(spaced, members) ==
    [kind |-> "json", spaced |-> spaced, items |-> members]
FormBody(segments) ==
    [kind |-> "form", spaced |-> FALSE,
     items |-> IF segments = <<>> THEN <<EmptySegment>> ELSE segments]

FilterRequest(method, headers, query, body) ==
    [method |-> method, headers |-> headers,
     uri |-> [path |-> "/a", query |-> query], body |-> body]

NoHeaders == [h \in {} |-> ""]
JsonHeaders == "Content-Type" :> "application/json"
FormHeaders == "Content-Type" :> "application/x-www-form-urlencoded"
HeaderInputs ==
    {NoHeaders, JsonHeaders, FormHeaders,
     ("A" :> "t") @@ ("a" :> "u"), ("a" :> "u") @@ ("b" :> "w")}
QueryInputs ==
    SeqsUpTo({<<"a", "1">>, <<"b", "2">>, <<"a", "">>, <<"A", "3">>},
             MaxQuery)
SegmentInputs ==
    {Segment("a", TRUE, "1"), Segment("b", TRUE, "2"),
     Segment("a", TRUE, "3"), Segment("", TRUE, "5"),
     Segment("b", FALSE, "")}
JsonInputs ==
    {JsonBody(sp, m) :
        sp \in BOOLEAN,
        m \in {<<>>, <<Segment("a", TRUE, "1")>>,
               <<Segment("a", TRUE, "1"), Segment("b", TRUE, "2")>>,
               <<Segment("b", TRUE, "2"), Segment("a", TRUE, "1")>>}}
FormInputs == {FormBody(b) : b \in SeqsUpTo(SegmentInputs, MaxSegments)}

\* the lists of names a filter is configured with (only membership is used)
NameInputs == {{}, {"a"}, {"A"}, {"x"}, {"a", "b"}}

\* requests that vary the headers, the query string or the body; a body is
\* of the kind its Content-Type announces
FilterRequests ==
    {FilterRequest(m, h, <<>>, FormBody(<<Segment("a", TRUE, "1")>>)) :
        m \in {"GET", "POST"}, h \in HeaderInputs \ {JsonHeaders}}
    \cup {FilterRequest("GET", NoHeaders, q, StreamBody) : q \in QueryInputs}
    \cup {FilterRequest(m, JsonHeaders, <<>>, b) :
            m \in {"GET", "POST"}, b \in JsonInputs}
    \cup {FilterRequest("POST", h, <<>>, b) :
            h \in {NoHeaders, FormHeaders}, b \in FormInputs \cup {StreamBody}}
    \cup {FilterRequest("GET", NoHeaders, <<>>, FormBody(<<s, t>>)) :
            s \in SegmentInputs, t \in SegmentInputs}

\* str.lower on the header names in use
Lower(name) ==
    CASE name = "A" -> "a"
      [] name = "Content-Type" -> "content-type"
      [] OTHER -> name

\* the order Python gives the strings in use
StringOrder == <<"", "1", "2", "3", "5", "A", "a", "b", "x">>
Rank(str) == CHOOSE i \in 1..Len(StringOrder) : StringOrder[i] = str
PairLess(p, q) ==
    \/ Rank(p[1]) < Rank(q[1])
    \/ p[1] = q[1] /\ Rank(p[2]) < Rank(q[2])

\* sorted(pairs)
RECURSIVE Sorted(_)
Sorted(pairs) ==
    IF pairs = <<>> THEN <<>>
    ELSE LET rest == Sorted(Tail(pairs))
             x == Head(pairs)
             before == SelectSeq(rest, LAMBDA y : PairLess(y, x))
             after == SelectSeq(rest, LAMBDA y : ~PairLess(y, x))
         IN before \o <<x>> \o after

\* Request.query: the URI's parameters as parse_qsl gives them (blank values
\* left out), sorted
query(request) ==
    Sorted(SelectSeq(request.uri.query, LAMBDA p : p[2] # ""))

\* remove_headers that pops only one of the keys it found
remove_headers_one(request, headers_to_remove) ==
    LET headers == request.headers
        lowered == {Lower(h) : h \in headers_to_remove}
        keys == {k \in DOMAIN headers : Lower(k) \in lowered}
    IN IF keys # {}
       THEN LET k0 == CHOOSE k \in keys : TRUE
            IN [request EXCEPT
                 !.headers = [k \in (DOMAIN headers) \ {k0} |-> headers[k]]]
       ELSE request

\* filters.remove_headers
remove_headers(request, headers_to_remove) ==
    LET headers == request.headers
        lowered == {Lower(h) : h \in headers_to_remove}
        keys == {k \in DOMAIN headers : Lower(k) \in lowered}
    IN IF keys # {}
       THEN [request EXCEPT
               !.headers = [k \in (DOMAIN headers) \ keys |-> headers[k]]]
       ELSE request

\* filters.remove_query_parameters: the query string is rewritten, by
\* urlencode(new_query), only when a parameter was removed
remove_query_parameters(request, query_parameters_to_remove) ==
    LET new_query ==
            SelectSeq(query(request),
                      LAMBDA p : p[1] \notin query_parameters_to_remove)
    IN IF Len(new_query) # Len(query(request))
       THEN [request EXCEPT !.uri.query = new_query]
       ELSE request

\* the OrderedDict the loop at lines 44-48 builds, as a sequence of
\* <<key, values>>; `overwrite` makes a repeated key replace its values
RECURSIVE PostData(_, _, _, _)
PostData(segments, names, post_data, overwrite) ==
    IF segments = <<>> THEN post_data
    ELSE LET k == Head(segments).k
             v == Head(segments).v
             at == {i \in 1..Len(post_data) : post_data[i][1] = k}
             i0 == CHOOSE i \in at : TRUE
             next ==
                 IF at # {}
                 THEN [post_data EXCEPT
                         ![i0] = <<k, IF overwrite THEN <<v>>
                                      ELSE Append(post_data[i0][2], v)>>]
                 ELSE IF k # "" /\ k \notin names
                 THEN Append(post_data, <<k, <<v>>>>)
                 ELSE post_data
         IN PostData(Tail(segments), names, next, overwrite)

\* b'&'.join(b'='.join([k, v]) for k, vals in post_data.items() for v in vals)
RECURSIVE Joined(_)
Joined(post_data) ==
    IF post_data = <<>> THEN <<>>
    ELSE LET k == Head(post_data)[1]
             vals == Head(post_data)[2]
         IN [i \in 1..Len(vals) |-> Segment(k, TRUE, vals[i])]
            \o Joined(Tail(post_data))

IsJson(request) ==
    /\ "Content-Type" \in DOMAIN request.headers
    /\ request.headers["Content-Type"] = "application/json"

\* remove_post_data_parameters whose form branch keeps the last value of a
\* repeated key only
remove_post_data_parameters_last(request, post_data_parameters_to_remove) ==
    IF request.method = "POST" /\ request.body.kind # "stream"
    THEN IF IsJson(request)
         THEN [request EXCEPT !.body =
                 JsonBody(TRUE,
                     SelectSeq(request.body.items,
                         LAMBDA m : m.k \notin post_data_parameters_to_remove))]
         ELSE [request EXCEPT !.body =
                 FormBody(Joined(PostData(request.body.items,
                     post_data_parameters_to_remove, <<>>, TRUE)))]
    ELSE request

\* filters.remove_post_data_parameters
remove_post_data_parameters(request, post_data_parameters_to_remove) ==
    IF request.method = "POST" /\ request.body.kind # "stream"
    THEN IF IsJson(request)
         THEN [request EXCEPT !.body =
                 JsonBody(TRUE,
                     SelectSeq(request.body.items,
                         LAMBDA m : m.k \notin post_data_parameters_to_remove))]
         ELSE [request EXCEPT !.body =
                 FormBody(Joined(PostData(request.body.items,
                     post_data_parameters_to_remove, <<>>, FALSE)))]
    ELSE request

Filters ==
    {"remove_headers", "remove_query_parameters",
     "remove_post_data_parameters"}

ApplyFilter(f, request, names) ==
    CASE f = "remove_headers" -> remove_headers(request, names)
      [] f = "remove_query_parameters" ->
            remove_query_parameters(request, names)
      [] f = "remove_post_data_parameters" ->
            remove_post_data_parameters(request, names)

\* no filter of vcr/filters.py is in use
NoFiltering == [idle |-> TRUE]

----------------------------------------------------------------------------
(* The ride API (src/steerclear/api/views.py) *)

(* Times are seconds on the clock datetime.utcnow reads.  A ride is a record
   [id, pickup_loc, dropoff_loc, pickup_time, travel_time, dropoff_time].
   The result of an ETA lookup is a matrix eta[i][j], the seconds from
   origin i to destination j (1-based here), or NoEta for None.  None as
   the result of calculate_time_data is the empty tuple. *)

\* highest ride id, latest clock reading, longest single ETA and latest
\* dropoff (after the first possible pickup) explored
MaxRideId == 3
MaxClock == 1
MaxEta == 1
MaxSchedule == 2

\* timedelta(0, 10 * 60)
PickupDelay == 600

\* what the ETA lookup returns is an input of its own, whatever the
\* locations, so one location is explored
Locations == {"campus"}
NoEta == <<>>
EtaMatrices(n) ==
    {[i \in 1..n |-> [j \in 1..n |-> IF i = j THEN d[i] ELSE 0]] :
        d \in [1..n -> 0..MaxEta]}

\* Ride(...), with the id the database gives the new row: one more than
\* the highest id in the table
NewRide(rides, pickup_loc, dropoff_loc, time_data) ==
    [id |-> IF rides = {} THEN 1
            ELSE 1 + (CHOOSE i \in {r.id : r \in rides} :
                        \A r \in rides : r.id <= i),
     pickup_loc |-> pickup_loc, dropoff_loc |-> dropoff_loc,
     pickup_time |-> time_data[1], travel_time |-> time_data[2],
     dropoff_time |-> time_data[3]]

\* db.session.query(Ride).order_by(Ride.id.desc()).first(), rides not empty
LastRide(rides) == CHOOSE r \in rides : \A q \in rides : q.id <= r.id

\* calculate_time_data that takes the ride with the lowest id as last ride
calculate_time_data_asc(rides, now, eta) ==
    IF eta = NoEta THEN <<>>
    ELSE IF rides = {}
    THEN LET pickup_time == now + PickupDelay
             travel_time == eta[1][1]
         IN <<pickup_time, travel_time, pickup_time + travel_time>>
    ELSE LET first == CHOOSE r \in rides : \A q \in rides : r.id <= q.id
             pickup_time == first.dropoff_time + eta[1][1]
             travel_time == eta[2][2]
         IN <<pickup_time, travel_time, pickup_time + travel_time>>

\* views.calculate_time_data; eta is what time_between_locations returned
calculate_time_data(rides, now, eta) ==
    IF eta = NoEta THEN <<>>
    ELSE IF rides = {}
    THEN LET pickup_time == now + PickupDelay
             travel_time == eta[1][1]
         IN <<pickup_time, travel_time, pickup_time + travel_time>>
    ELSE LET pickup_time == LastRide(rides).dropoff_time + eta[1][1]
             travel_time == eta[2][2]
         IN <<pickup_time, travel_time, pickup_time + travel_time>>

\* the response to a request: its status and what the request was given
Response(op, status, valid, eta) ==
    [op |-> op, status |-> status, valid |-> valid, eta |-> eta]

\* the ride API is not running
NoRideApi == [idle |-> TRUE]

----------------------------------------------------------------------------
(* Initial states *)

Rec(op, who, request, arg, ret, did) ==
    [op |-> op, who |-> who, request |-> request, arg |-> arg, ret |-> ret,
     did |-> did]

\* what storage may hold before the first load: nothing, or exchanges
\* recorded earlier (possibly under another filter configuration)
InitialDisks(inputs, n) ==
    {NoFile} \cup
    {File([i \in 1..Len(s) |-> s[i][1]], [i \in 1..Len(s) |-> s[i][2]]) :
        s \in SeqsUpTo(inputs, n)}

InitCommon ==
    /\ cass = [h \in Holders |-> NoCassette]
    /\ finish = [d \in Decorators |-> "None"]
    /\ patches = [d \in Decorators |-> {}]
    /\ active = [i \in Invocations |-> FALSE]
    /\ last = Rec("init", "direct", NoneRequest, "", Returned("None"), {})

Init ==
    /\ kwargs \in Configs
    /\ disk \in InitialDisks(ExchangeInputs, MaxData)
    /\ InitCommon
    /\ filt = NoFiltering
    /\ ride = NoRideApi

ScopeInit ==
    /\ kwargs \in ScopeConfigs
    /\ disk \in InitialDisks(ScopeExchangeInputs, MaxScopeData)
    /\ InitCommon
    /\ filt = NoFiltering
    /\ ride = NoRideApi

----------------------------------------------------------------------------
(* Operations on the cassette held by holder h, called by `who` *)

Held(h) == cass[h] # NoCassette

\* Cassette.load(**kwargs), called directly
LoadOp ==
    /\ IF load_raises(disk)
       THEN /\ cass' = cass
            /\ last' = Rec("load", "direct", NoneRequest, "",
                           Raised(load_cassette_error(disk)), {})
       ELSE /\ cass' = [cass EXCEPT !["direct"] = load(kwargs, disk)]
            /\ last' = Rec("load", "direct", NoneRequest, "",
                           Returned("cassette"),
                           IF load_cassette_error(disk) = "none"
                           THEN {"read"} ELSE {})
    /\ UNCHANGED <<kwargs, disk, finish, patches, active,
                   filt, ride>>

AppendOp(h, who, request, response) ==
    /\ Held(h)
    /\ cass' = [cass EXCEPT ![h] = append(@, request, response)]
    /\ last' = Rec("append", who, request, response, Returned("None"), {})
    /\ UNCHANGED <<kwargs, disk, finish, patches, active,
                   filt, ride>>

PlayResponseOp(h, who, request) ==
    /\ Held(h)
    /\ LET r == play_response(cass[h], request)
       IN /\ cass' = [cass EXCEPT ![h] = r.cassette]
          /\ last' = Rec("play_response", who, request, "", r.ret, {})
    /\ UNCHANGED <<kwargs, disk, finish, patches, active,
                   filt, ride>>

ResponsesOfOp(h, who, request) ==
    /\ Held(h)
    /\ last' = Rec("responses_of", who, request, "",
                   responses_of(cass[h], request), {})
    /\ UNCHANGED <<kwargs, disk, cass, finish, patches, active,
                   filt, ride>>

CanPlayResponseForOp(h, who, request) ==
    /\ Held(h)
    /\ last' = Rec("can_play_response_for", who, request, "",
                   can_play_response_for(cass[h], request), {})
    /\ UNCHANGED <<kwargs, disk, cass, finish, patches, active,
                   filt, ride>>

ContainsOp(h, who, request) ==
    /\ Held(h)
    /\ last' = Rec("__contains__", who, request, "",
                   contains(cass[h], request), {})
    /\ UNCHANGED <<kwargs, disk, cass, finish, patches, active,
                   filt, ride>>

WriteProtectedOp(h, who) ==
    /\ Held(h)
    /\ last' = Rec("write_protected", who, NoneRequest, "",
                   IF write_protected(cass[h])
                   THEN Returned("True") ELSE Returned("False"), {})
    /\ UNCHANGED <<kwargs, disk, cass, finish, patches, active,
                   filt, ride>>

SaveOp(h, who, force) ==
    /\ Held(h)
    /\ LET s == save(cass[h], force, disk)
       IN /\ cass' = [cass EXCEPT ![h] = s.cassette]
          /\ disk' = s.disk
          /\ last' = Rec("_save", who, NoneRequest,
                         IF force THEN "force" ELSE "", Returned("None"),
                         s.did)
    /\ UNCHANGED <<kwargs, finish, patches, active,
                   filt, ride>>

----------------------------------------------------------------------------
(* CassetteContextDecorator *)

\* __enter__ without its assertion: the generator it forgets is closed (its
\* ExitStack leaves the patchers, nothing is saved) and a new one started
EnterUnguarded(d, who) ==
    /\ cass' = [cass EXCEPT ![d] = load(kwargs, disk)]
    /\ finish' = [finish EXCEPT ![d] = "generator"]
    /\ patches' = [patches EXCEPT ![d] = Patchers]
    /\ last' = Rec("__enter__", who, NoneRequest, d, Returned("cassette"),
                   {"args_getter", "load", "patch"})
    /\ UNCHANGED <<kwargs, disk>>

\* CassetteContextDecorator.__enter__ on decorator object d.  The generator
\* of _patch_generator runs up to its yield: every patcher is entered.
Enter(d, who) ==
    IF finish[d] # "None"
    THEN /\ last' = Rec("__enter__", who, NoneRequest, d,
                        Raised("AssertionError"), {})
         /\ UNCHANGED <<kwargs, disk, cass, finish, patches>>
    ELSE IF load_raises(disk)
    THEN /\ last' = Rec("__enter__", who, NoneRequest, d,
                        Raised(load_cassette_error(disk)), {"args_getter"})
         /\ UNCHANGED <<kwargs, disk, cass, finish, patches>>
    ELSE /\ cass' = [cass EXCEPT ![d] = load(kwargs, disk)]
         /\ finish' = [finish EXCEPT ![d] = "generator"]
         /\ patches' = [patches EXCEPT ![d] = Patchers]
         /\ last' = Rec("__enter__", who, NoneRequest, d,
                        Returned("cassette"),
                        {"args_getter", "load", "patch"})
         /\ UNCHANGED <<kwargs, disk>>

\* __exit__ that resumes the generator only when the body raised nothing
ExitOnReturnOnly(d, who, raised) ==
    /\ finish[d] = "generator"
    /\ IF raised
       THEN /\ last' = Rec("__exit__", who, NoneRequest, d,
                           Raised("BodyError"), {})
            /\ UNCHANGED <<disk, patches>>
       ELSE LET s == save(cass[d], FALSE, disk)
            IN /\ disk' = s.disk
               /\ patches' = [patches EXCEPT ![d] = {}]
               /\ last' = Rec("__exit__", who, NoneRequest, d,
                              Returned("None"),
                              s.did \cup {"save", "unpatch"})
    /\ cass' = [cass EXCEPT ![d] = NoCassette]
    /\ finish' = [finish EXCEPT ![d] = "None"]
    /\ UNCHANGED kwargs

\* CassetteContextDecorator.__exit__(*args) on decorator object d, with or
\* without an exception from the body: next(self.__finish, None) resumes the
\* generator after its yield (cassette._save(), then the ExitStack leaves
\* every patcher), then self.__finish = None.  The scope's reference to the
\* cassette ends here.
Exit(d, who, raised) ==
    /\ finish[d] = "generator"
    /\ LET s == save(cass[d], FALSE, disk)
       IN /\ disk' = s.disk
          /\ last' = Rec("__exit__", who, NoneRequest, d,
                         IF raised THEN Raised("BodyError")
                         ELSE Returned("None"),
                         s.did \cup {"save", "unpatch"})
    /\ cass' = [cass EXCEPT ![d] = NoCassette]
    /\ patches' = [patches EXCEPT ![d] = {}]
    /\ finish' = [finish EXCEPT ![d] = "None"]
    /\ UNCHANGED kwargs

\* __call__ entering self instead of a clone
DecoratorShared(i) == "shared"

\* CassetteContextDecorator.__call__: the decorator object an invocation
\* enters is a clone made for this invocation
DecoratorFor(i) == i

\* `with decorator as cassette:` on the shared decorator object
EnterOp ==
    /\ Enter("shared", "with")
    /\ UNCHANGED <<active, filt, ride>>

\* leaving that with-block, normally or by an exception
ExitOp(raised) ==
    /\ Exit("shared", "with", raised)
    /\ UNCHANGED <<active, filt, ride>>

\* an invocation of the decorated function reaches `with clone as cassette`
CallOp(i) ==
    /\ ~active[i]
    /\ Enter(DecoratorFor(i), i)
    /\ active' = [active EXCEPT ![i] = (finish[DecoratorFor(i)] = "None"
                                         /\ ~load_raises(disk))]
    /\ UNCHANGED <<filt, ride>>

\* the decorated function returns or raises
ReturnOp(i, raised) ==
    /\ active[i]
    /\ Exit(DecoratorFor(i), i, raised)
    /\ active' = [active EXCEPT ![i] = FALSE]
    /\ UNCHANGED <<filt, ride>>

\* the scopes of the decorator model and the decorator object of each
Scopes == {"with"} \cup Invocations
DecoratorOf(s) == IF s = "with" THEN "shared" ELSE DecoratorFor(s)
InBody(s) == IF s = "with" THEN finish["shared"] = "generator" ELSE active[s]

----------------------------------------------------------------------------
(* Specification of one directly used cassette *)

Next ==
    \/ LoadOp
    \/ \E e \in ExchangeInputs :
          /\ Held("direct")
          /\ Len(cass["direct"].data) < MaxData
          /\ AppendOp("direct", "direct", e[1], e[2])
    \/ \E r \in RequestInputs : PlayResponseOp("direct", "direct", r)
    \/ \E r \in RequestInputs : ResponsesOfOp("direct", "direct", r)
    \/ \E r \in RequestInputs : CanPlayResponseForOp("direct", "direct", r)
    \/ \E r \in RequestInputs : ContainsOp("direct", "direct", r)
    \/ WriteProtectedOp("direct", "direct")
    \/ \E force \in BOOLEAN : SaveOp("direct", "direct", force)

Spec == Init /\ [][Next]_vars

(* Specification of the decorator: a with-block on the shared decorator
   object and the invocations of a function decorated with it, interleaved *)

ScopeNext ==
    \/ EnterOp
    \/ \E raised \in BOOLEAN : ExitOp(raised)
    \/ \E i \in Invocations : CallOp(i)
    \/ \E i \in Invocations, raised \in BOOLEAN : ReturnOp(i, raised)
    \/ \E s \in Scopes, e \in ScopeExchangeInputs :
          /\ InBody(s)
          /\ Held(DecoratorOf(s))
          /\ Len(cass[DecoratorOf(s)].data) < MaxScopeData
          /\ AppendOp(DecoratorOf(s), s, e[1], e[2])
    \/ \E s \in Scopes, e \in ScopeExchangeInputs :
          /\ InBody(s)
          /\ PlayResponseOp(DecoratorOf(s), s, e[1])
    \/ \E s \in Scopes, e \in ScopeExchangeInputs :
          /\ InBody(s)
          /\ ResponsesOfOp(DecoratorOf(s), s, e[1])
    \/ \E s \in Scopes, e \in ScopeExchangeInputs :
          /\ InBody(s)
          /\ CanPlayResponseForOp(DecoratorOf(s), s, e[1])
    \/ \E s \in Scopes, e \in ScopeExchangeInputs :
          /\ InBody(s)
          /\ ContainsOp(DecoratorOf(s), s, e[1])

ScopeSpec == ScopeInit /\ [][ScopeNext]_vars

(* Specification of a cassette whose storage cannot be loaded: the path is
   absent, unreadable or holds content that does not parse.  Nothing is
   saved here, so the storage stays as it was found. *)

StorageInit ==
    /\ kwargs \in Configs
    /\ disk \in InitialDisks(ScopeExchangeInputs, MaxStorageData)
                 \cup {Unreadable, Corrupt}
    /\ InitCommon
    /\ filt = NoFiltering
    /\ ride = NoRideApi

StorageNext ==
    \/ LoadOp
    \/ \E e \in ExchangeInputs :
          /\ Held("direct")
          /\ Len(cass["direct"].data) < MaxStorageData
          /\ AppendOp("direct", "direct", e[1], e[2])
    \/ \E r \in RequestInputs : PlayResponseOp("direct", "direct", r)
    \/ \E r \in RequestInputs : ContainsOp("direct", "direct", r)

StorageSpec == StorageInit /\ [][StorageNext]_vars

(* Specification of the filters: a request is handed from filter to filter,
   each configured with the same list of names *)

DefaultKwargs ==
    [record_mode |-> "once", match_on |-> {"uri", "method"},
     before_record_request |-> "identity",
     before_record_response |-> "identity"]

FilterInit ==
    /\ kwargs = DefaultKwargs
    /\ disk = NoFile
    /\ InitCommon
    /\ filt \in {[request |-> q, names |-> n, op |-> "none", before |-> q] :
                    q \in FilterRequests, n \in NameInputs}
    /\ ride = NoRideApi

FilterOp(f) ==
    /\ filt' = [request |-> ApplyFilter(f, filt.request, filt.names),
                names |-> filt.names, op |-> f, before |-> filt.request]
    /\ UNCHANGED <<kwargs, disk, cass, finish, patches, active, last, ride>>

FilterNext ==
    \/ FilterOp("remove_headers")
    \/ FilterOp("remove_query_parameters")
    \/ FilterOp("remove_post_data_parameters")

FilterSpec == FilterInit /\ [][FilterNext]_vars

(* Specification of the ride API: POST /rides and DELETE /rides/<id>,
   executed one after the other, while the clock advances *)

RideInit ==
    /\ kwargs = DefaultKwargs
    /\ disk = NoFile
    /\ InitCommon
    /\ filt = NoFiltering
    /\ ride = [rides |-> {}, now |-> 0,
               resp |-> Response("none", 200, TRUE, NoEta)]

RideUnchanged ==
    UNCHANGED <<kwargs, disk, cass, finish, patches, active, last, filt>>

\* RideListAPI.post: `valid` is form.validate_on_submit(), eta the result of
\* the ETA lookup, `integrity` whether the commit raises IntegrityError
Post(valid, pickup_loc, dropoff_loc, eta, integrity, now) ==
    LET time_data == calculate_time_data(ride.rides, now, eta)
    IN /\ IF ~valid \/ time_data = <<>> \/ integrity
          THEN ride' = [rides |-> ride.rides, now |-> now,
                        resp |-> Response("POST", 400, valid, eta)]
          ELSE LET new_ride ==
                       NewRide(ride.rides, pickup_loc, dropoff_loc, time_data)
               IN /\ new_ride.id <= MaxRideId
                  /\ new_ride.dropoff_time <= PickupDelay + MaxSchedule
                  /\ ride' = [rides |-> ride.rides \cup {new_ride},
                              now |-> now,
                              resp |-> Response("POST", 201, valid, eta)]
       /\ RideUnchanged

\* RideAPI.delete
Delete(ride_id, integrity, now) ==
    /\ IF (\A r \in ride.rides : r.id # ride_id) \/ integrity
       THEN ride' = [rides |-> ride.rides, now |-> now,
                     resp |-> Response("DELETE", 404, TRUE, NoEta)]
       ELSE ride' = [rides |-> {r \in ride.rides : r.id # ride_id},
                     now |-> now,
                     resp |-> Response("DELETE", 204, TRUE, NoEta)]
    /\ RideUnchanged

RideNext ==
    \/ \E valid \in BOOLEAN, integrity \in BOOLEAN,
          pickup_loc \in Locations, dropoff_loc \in Locations,
          now \in ride.now..MaxClock,
          eta \in {NoEta} \cup
                  EtaMatrices(IF ride.rides = {} THEN 1 ELSE 2) :
            Post(valid, pickup_loc, dropoff_loc, eta, integrity, now)
    \/ \E ride_id \in 1..MaxRideId, integrity \in BOOLEAN,
          now \in ride.now..MaxClock :
            Delete(ride_id, integrity, now)

RideSpec == RideInit /\ [][RideNext]_vars

----------------------------------------------------------------------------
(* Properties.  In Spec the cassette is the one held by "direct"; `last`
   names the call a step made, so a property of one operation is a property
   of the steps whose last'.op is that operation. *)

Filtered(c, request) == ApplyRequestFilter(c.before_record_request, request)

\* the 1-based positions of the stored exchanges whose request matches the
\* filtered request
Matches(c, request) ==
    {i \in 1..Len(c.data) :
        RequestsMatch(Filtered(c, request), c.data[i][1], c.match_on)}

\* those of them whose play counter is 0
Unplayed(c, request) ==
    {i \in Matches(c, request) : Count(c.play_counts, i - 1) = 0}

\* the responses at the positions S, in insertion order, each as a return
RECURSIVE ReturnsAt(_, _, _)
ReturnsAt(c, S, i) ==
    IF i > Len(c.data) THEN <<>>
    ELSE (IF i \in S THEN <<Returned(c.data[i][2])>> ELSE <<>>)
         \o ReturnsAt(c, S, i + 1)

\* n successive play_response(request) calls: what each returned or raised
\* and the cassette they leave
RECURSIVE PlayTimes(_, _, _)
PlayTimes(c, request, n) ==
    IF n = 0 THEN [cassette |-> c, rets |-> <<>>]
    ELSE LET r == play_response(c, request)
             rest == PlayTimes(r.cassette, request, n - 1)
         IN [cassette |-> rest.cassette, rets |-> <<r.ret>> \o rest.rets]

(* C1: play_response(R) returns the response of the lowest-index stored
   exchange that matches the filtered R and has play counter 0, and adds one
   to exactly that exchange's play counter; the other counters, the exchange
   list, dirty, rewound and storage are unchanged. *)
C1_PlayResponseFirstUnplayed ==
    [][(last'.op = "play_response"
        /\ Unplayed(cass["direct"], last'.request) # {}) =>
        LET c == cass["direct"]
            c2 == cass'["direct"]
            i == Min(Unplayed(c, last'.request))
        IN /\ last'.ret = Returned(c.data[i][2])
           /\ \A k \in 1..Len(c.data) :
                 Count(c2.play_counts, k - 1) =
                    Count(c.play_counts, k - 1) + (IF k = i THEN 1 ELSE 0)
           /\ DOMAIN c2.play_counts \subseteq 0..(Len(c.data) - 1)
           /\ c2.data = c.data
           /\ c2.dirty = c.dirty
           /\ c2.rewound = c.rewound
           /\ disk' = disk]_vars

\* a replay that took the first of two matching unplayed exchanges
C1_Witness ==
    /\ last.op = "play_response"
    /\ Held("direct")
    /\ Matches(cass["direct"], last.request) = {1, 2}
    /\ Count(cass["direct"].play_counts, 0) = 1
    /\ Count(cass["direct"].play_counts, 1) = 0
    /\ cass["direct"].data[1][2] # cass["direct"].data[2][2]
    /\ last.ret = Returned(cass["direct"].data[1][2])

\* what C2 says of k exchanges S of cassette c and request R: k plays return
\* the responses of S in insertion order, each exchange of S is then played
\* once, and one more play raises the unhandled-request error and changes
\* nothing
PlaysExactly(c, request, S) ==
    LET run == PlayTimes(c, request, Cardinality(S))
        after == play_response(run.cassette, request)
    IN /\ run.rets = ReturnsAt(c, S, 1)
       /\ \A i \in 1..Len(c.data) :
             Count(run.cassette.play_counts, i - 1) =
                Count(c.play_counts, i - 1) + (IF i \in S THEN 1 ELSE 0)
       /\ run.cassette.data = c.data
       /\ after.ret = Raised("UnhandledHTTPRequestError")
       /\ after.cassette = run.cassette

(* C2 as stated, for the requests the filter does not suppress: for a
   cassette holding exactly k stored exchanges that match R, k successive
   play_response(R) calls return those k responses in insertion order, each
   once, and call k+1 raises the unhandled-request error and changes
   nothing. *)
C2_Original ==
    Held("direct") =>
        \A R \in RequestInputs :
            Truthy(Filtered(cass["direct"], R)) =>
                PlaysExactly(cass["direct"], R, Matches(cass["direct"], R))

(* C2 amended: for a request R the filter does not suppress and a cassette
   in which exactly k stored exchanges match R and have play counter 0, k
   successive play_response(R) calls return those k responses in insertion
   order, each once, and call k+1 raises the unhandled-request error and
   changes nothing. *)
C2_PlaysUnplayedMatchesInOrder ==
    Held("direct") =>
        \A R \in RequestInputs :
            Truthy(Filtered(cass["direct"], R)) =>
                PlaysExactly(cass["direct"], R, Unplayed(cass["direct"], R))

\* two matching exchanges have been replayed and a third play was refused
C2_Witness ==
    /\ last.op = "play_response"
    /\ last.ret = Raised("UnhandledHTTPRequestError")
    /\ Held("direct")
    /\ Matches(cass["direct"], last.request) = {1, 2}
    /\ Count(cass["direct"].play_counts, 0) = 1
    /\ Count(cass["direct"].play_counts, 1) = 1

(* C3: can_play_response_for(R) is truthy iff the request filter does not
   suppress R, some stored exchange matching the filtered R has play counter
   0, record_mode is not "all" and rewound is true. *)
C3_CanPlayIff ==
    Held("direct") =>
        \A R \in RequestInputs :
            IsTruthy(can_play_response_for(cass["direct"], R)) <=>
                /\ Truthy(Filtered(cass["direct"], R))
                /\ Unplayed(cass["direct"], R) # {}
                /\ cass["direct"].record_mode # "all"
                /\ cass["direct"].rewound

(* C4: a write-protected cassette never records: no append, play_response or
   save on it adds an exchange to its list or changes persisted storage. *)
C4_WriteProtectedNeverRecords ==
    [][(/\ Held("direct")
        /\ write_protected(cass["direct"])
        /\ last'.op \in {"append", "play_response", "_save"}) =>
        /\ cass'["direct"].data = cass["direct"].data
        /\ disk' = disk]_vars

(* C5: leaving an entered scope, whether the body returned or raised, saves
   the cassette subject to the dirty check and leaves every patcher the
   entry installed; no decorator that is not open holds a patcher. *)
C5_ExitSavesAndUnpatches ==
    [][\A d \in Decorators :
        /\ (finish[d] = "generator" /\ finish'[d] # "generator") =>
              /\ patches'[d] = {}
              /\ last'.op = "__exit__"
              /\ cass[d].dirty =>
                    /\ disk' = File([i \in 1..Len(cass[d].data) |->
                                        cass[d].data[i][1]],
                                    [i \in 1..Len(cass[d].data) |->
                                        cass[d].data[i][2]])
                    /\ "write" \in last'.did
              /\ ~cass[d].dirty => (disk' = disk /\ "write" \notin last'.did)
        /\ finish'[d] = "None" => patches'[d] = {}]_vars

\* a scope whose body raised has been left: its dirty cassette is in storage
\* and its patchers are gone
C5_Witness ==
    /\ last.op = "__exit__"
    /\ last.ret = Raised("BodyError")
    /\ "write" \in last.did
    /\ disk.exists
    /\ Len(disk.requests) > 0
    /\ patches[last.arg] = {}
    /\ finish[last.arg] = "None"

(* C6: two invocations of a function decorated with the same decorator,
   interleaved or nested, each run against their own cassette: neither trips
   the "already open" assertion, they enter different decorator objects, and
   an append or play_response of one leaves the other's cassette (exchange
   list, play counters, dirty, rewound) as it was. *)
C6_InvocationsIsolated ==
    [][/\ (last'.op = "__enter__" /\ last'.who \in Invocations) =>
             last'.ret = Returned("cassette")
       /\ \A i, j \in Invocations :
             (i # j /\ active'[i] /\ active'[j]) =>
                 DecoratorFor(i) # DecoratorFor(j)
       /\ \A i, j \in Invocations :
             (/\ i # j
              /\ active[j]
              /\ last'.who = i
              /\ last'.op \in {"append", "play_response"}) =>
                 cass'[DecoratorFor(j)] = cass[DecoratorFor(j)]]_vars

\* both invocations are inside their bodies; one has recorded and replayed
\* nothing the other sees
C6_Witness ==
    /\ active["call1"] /\ active["call2"]
    /\ last.op = "append"
    /\ last.who = "call1"
    /\ cass["call1"].dirty
    /\ Len(cass["call1"].data) = 1
    /\ ~cass["call2"].dirty
    /\ cass["call2"].data = <<>>
    /\ finish["shared"] = "generator"

(* C7: entering a decorator object that is already open raises the usage
   error (AssertionError, not the unhandled-request error) before the
   argument getter is called, a cassette loaded or a patcher installed, and
   leaves the open scope's cassette and patchers as they were. *)
C7_ReentryFailsFast ==
    [][(last'.op = "__enter__" /\ finish[last'.arg] = "generator") =>
        /\ last'.ret = Raised("AssertionError")
        /\ last'.ret # Raised("UnhandledHTTPRequestError")
        /\ last'.did = {}
        /\ cass' = cass
        /\ patches' = patches
        /\ finish' = finish
        /\ disk' = disk]_vars

\* a second entry into the open shared decorator was refused; the first
\* scope still holds its cassette, with an unsaved exchange, and its patchers
C7_Witness ==
    /\ last.op = "__enter__"
    /\ last.ret = Raised("AssertionError")
    /\ finish["shared"] = "generator"
    /\ patches["shared"] = Patchers
    /\ Held("shared")
    /\ cass["shared"].dirty

(* C8: append(request, response) is a no-op when the request filter returns
   a falsy value; otherwise it adds exactly the pair (filtered request,
   filtered response) at the end of the exchange list, keeps the existing
   exchanges and play counters, and sets dirty. *)
C8_AppendContract ==
    [][last'.op = "append" =>
        LET c == cass["direct"]
            c2 == cass'["direct"]
        IN /\ last'.ret = Returned("None")
           /\ disk' = disk
           /\ IF ~Truthy(Filtered(c, last'.request)) THEN c2 = c
              ELSE /\ Len(c2.data) = Len(c.data) + 1
                   /\ \A i \in 1..Len(c.data) : c2.data[i] = c.data[i]
                   /\ c2.data[Len(c2.data)] =
                        <<Filtered(c, last'.request),
                          ApplyResponseFilter(c.before_record_response,
                                              last'.arg)>>
                   /\ c2.play_counts = c.play_counts
                   /\ c2.dirty
                   /\ c2.rewound = c.rewound]_vars

\* an exchange was appended behind one that had already been replayed
C8_Witness ==
    /\ last.op = "append"
    /\ Held("direct")
    /\ Len(cass["direct"].data) = 2
    /\ cass["direct"].data[2][1] = Filtered(cass["direct"], last.request)
    /\ Count(cass["direct"].play_counts, 0) = 1
    /\ cass["direct"].dirty

(* C9: save(force) writes the current exchange list to storage iff dirty or
   force; after the write dirty is false; with neither, storage is not
   written and the cassette is unchanged. *)
C9_SaveContract ==
    [][last'.op = "_save" =>
        LET c == cass["direct"]
            c2 == cass'["direct"]
        IN IF c.dirty \/ last'.arg = "force"
           THEN /\ "write" \in last'.did
                /\ disk' = File([i \in 1..Len(c.data) |-> c.data[i][1]],
                                [i \in 1..Len(c.data) |-> c.data[i][2]])
                /\ c2 = [c EXCEPT !.dirty = FALSE]
           ELSE /\ "write" \notin last'.did
                /\ disk' = disk
                /\ c2 = c]_vars

\* a forced save wrote the list of a cassette that loaded no storage
C9_Witness ==
    /\ last.op = "_save"
    /\ last.arg = "force"
    /\ "write" \in last.did
    /\ Held("direct")
    /\ ~cass["direct"].dirty
    /\ ~cass["direct"].rewound
    /\ disk.exists
    /\ Len(disk.requests) = Len(cass["direct"].data)

\* the stored pairs whose request the filter keeps: as stored (raw), or as
\* the request and response filters leave them
RECURSIVE KeptPairs(_, _, _, _)
KeptPairs(kw, d, i, raw) ==
    IF i > Len(d.requests) \/ i > Len(d.responses) THEN <<>>
    ELSE LET req == ApplyRequestFilter(kw.before_record_request,
                                       d.requests[i])
             resp == ApplyResponseFilter(kw.before_record_response,
                                         d.responses[i])
         IN (IF ~Truthy(req) THEN <<>>
             ELSE IF raw THEN <<(<<d.requests[i], d.responses[i]>>)>>
             ELSE <<(<<req, resp>>)>>)
            \o KeptPairs(kw, d, i + 1, raw)

\* what C10 says of a step that is a load
LoadContract(raw) ==
    last'.op = "load" =>
        LET c2 == cass'["direct"]
        IN /\ last'.ret = Returned("cassette")
           /\ disk' = disk
           /\ ~c2.dirty
           /\ c2.play_counts = <<>>
           /\ IF ~disk.exists
              THEN c2.data = <<>> /\ ~c2.rewound
              ELSE c2.rewound /\ c2.data = KeptPairs(kwargs, disk, 1, raw)

(* C10 as stated: load on absent storage raises nothing and gives an empty
   cassette with dirty and rewound false; load on readable storage gives
   rewound true, dirty false and the stored pairs, in stored order, minus
   the pairs whose request the filter suppresses. *)
C10_Original == [][LoadContract(TRUE)]_vars

(* C10 amended: as stated, except that the exchange list on readable storage
   is the stored pairs, in stored order, minus the pairs whose request the
   request filter suppresses, each kept pair with its request passed through
   the request filter and its response through the response filter. *)
C10_LoadAppliesFilters == [][LoadContract(FALSE)]_vars

\* a load that kept one stored pair, rewritten by the filter, and dropped none
C10_Witness ==
    /\ last.op = "load"
    /\ disk.exists
    /\ Held("direct")
    /\ cass["direct"].rewound
    /\ Len(disk.requests) = 2
    /\ Len(cass["direct"].data) = 2
    /\ cass["direct"].data[1][1] # disk.requests[1]

(* C11: when storage exists at the path but is corrupt or unreadable, load
   raises to the caller and yields no cassette; only absent storage is
   turned into an empty cassette. *)
C11_LoadPropagatesStorageErrors ==
    [][last'.op = "load" =>
        IF disk.exists /\ Fault(disk) # "none"
        THEN last'.ret.kind = "raise" /\ cass' = cass
        ELSE last'.ret.kind = "return"]_vars

(* C12: in every state reached by load, append, play_response, responses_of,
   can_play_response_for and save on one cassette, every play counter is 0
   or 1, counters exist only for indices of stored exchanges, the total play
   count is at most the number of stored exchanges, and no counter decreases
   from one state to the next (load constructs the cassette, so the steps
   compared are those after it). *)
C12_PlayCountersBounded ==
    [][LET c == cass["direct"]
           c2 == cass'["direct"]
       IN c2 # NoCassette =>
            /\ DOMAIN c2.play_counts \subseteq 0..(Len(c2.data) - 1)
            /\ \A i \in DOMAIN c2.play_counts : c2.play_counts[i] \in {0, 1}
            /\ play_count(c2) <= Len(c2.data)
            /\ (c # NoCassette /\ last'.op # "load") =>
                  \A i \in 0..(Len(c.data) - 1) :
                      Count(c.play_counts, i) <= Count(c2.play_counts, i)]_vars

\* every stored exchange has been played, the last one just now
C12_Witness ==
    /\ Held("direct")
    /\ last.op = "play_response" /\ last.ret.kind = "return"
    /\ Len(cass["direct"].data) = 2
    /\ play_count(cass["direct"]) = 2

\* the responses stored at the positions S, in insertion order
RECURSIVE StoredResponsesAt(_, _, _)
StoredResponsesAt(c, S, i) ==
    IF i > Len(c.data) THEN <<>>
    ELSE (IF i \in S THEN <<c.data[i][2]>> ELSE <<>>)
         \o StoredResponsesAt(c, S, i + 1)

(* C13: responses_of(R) returns the responses of all stored exchanges that
   match R, in insertion order, played or not, and changes no play counter
   and no other cassette state or storage; it fails with the
   unhandled-request error exactly when no stored exchange matches R. *)
C13_ResponsesOfContract ==
    [][last'.op = "responses_of" =>
        LET c == cass["direct"]
            S == Matches(c, last'.request)
        IN /\ cass' = cass /\ disk' = disk
           /\ IF S = {}
              THEN last'.ret = Raised("UnhandledHTTPRequestError")
              ELSE last'.ret = ReturnedList(StoredResponsesAt(c, S, 1))]_vars

(* C14: write_protected is true exactly when (rewound and record_mode is
   'once') or record_mode is 'none'; it is false for 'all' and
   'new_episodes' and for a 'once' cassette whose load found no storage
   (rewound is set by a load that found storage and by nothing else). *)
C14_WriteProtectedIff ==
    [][LET c == cass["direct"]
           c2 == cass'["direct"]
       IN /\ last'.op = "write_protected" =>
               /\ last'.ret \in {Returned("True"), Returned("False")}
               /\ last'.ret = Returned("True") <=>
                     \/ c.rewound /\ c.record_mode = "once"
                     \/ c.record_mode = "none"
               /\ c.record_mode \in {"all", "new_episodes"} =>
                     last'.ret = Returned("False")
          /\ (last'.op = "load" /\ last'.ret.kind = "return") =>
               c2.rewound = disk.exists
          /\ (c # NoCassette /\ last'.op # "load") =>
               c2.rewound = c.rewound]_vars

\* a 'once' cassette loaded from existing storage reports write protection
C14_Witness ==
    /\ Held("direct")
    /\ last.op = "write_protected" /\ last.ret = Returned("True")
    /\ cass["direct"].record_mode = "once"

(* C15: each of remove_headers, remove_query_parameters and
   remove_post_data_parameters is idempotent: applied with the names N to
   its own result for N, it yields the same headers, URI and body. *)
C15_FiltersIdempotent ==
    [][filt'.op \in Filters =>
        LET once == filt'.request
            twice == ApplyFilter(filt'.op, once, filt.names)
        IN /\ twice.headers = once.headers
           /\ twice.uri = once.uri
           /\ twice.body = once.body]_vars

\* a filter has just been applied to its own result, after the first
\* application changed the request
C15_Witness ==
    /\ filt.op \in Filters
    /\ \E q \in FilterRequests :
          /\ filt.before = ApplyFilter(filt.op, q, filt.names)
          /\ filt.before # q
          /\ filt.request = ApplyFilter(filt.op, filt.before, filt.names)

\* is one of the names a header, query parameter or body field of the
\* request, as the filter f looks for it
NamedPresent(f, request, names) ==
    CASE f = "remove_headers" ->
            \E k \in DOMAIN request.headers :
                Lower(k) \in {Lower(h) : h \in names}
      [] f = "remove_query_parameters" ->
            \E i \in 1..Len(request.uri.query) :
                request.uri.query[i][1] \in names
      [] f = "remove_post_data_parameters" ->
            \E i \in 1..Len(request.body.items) :
                request.body.items[i].k \in names

(* C16: when none of the named headers, query parameters or body fields is
   present in the request, each filter returns it with headers, URI and
   body identical to the input; remove_post_data_parameters also leaves
   every non-POST request and every request with a stream body unchanged. *)
C16_AbsentNamesNoOp ==
    [][filt'.op \in Filters =>
        /\ ~NamedPresent(filt'.op, filt.request, filt.names) =>
              /\ filt'.request.headers = filt.request.headers
              /\ filt'.request.uri = filt.request.uri
              /\ filt'.request.body = filt.request.body
        /\ (/\ filt'.op = "remove_post_data_parameters"
            /\ \/ filt.request.method # "POST"
               \/ filt.request.body.kind = "stream") =>
              filt'.request = filt.request]_vars

\* the key=value pairs of a form body: its segments but the empty ones
Pairs(body) == SelectSeq(body.items, LAMBDA sg : sg # EmptySegment)

\* the values a key has among the pairs, in order
ValuesOf(pairs, k) ==
    LET at == SelectSeq(pairs, LAMBDA sg : sg.k = k)
    IN [i \in 1..Len(at) |-> at[i].v]

\* the distinct keys of the pairs, in the order of their first occurrence
RECURSIVE KeyOrder(_)
KeyOrder(pairs) ==
    IF pairs = <<>> THEN <<>>
    ELSE LET init == KeyOrder(SubSeq(pairs, 1, Len(pairs) - 1))
             k == pairs[Len(pairs)].k
         IN IF \E i \in 1..Len(init) : init[i] = k
            THEN init ELSE Append(init, k)

\* what a remove_post_data_parameters step on a POST request with a form
\* body is to do; `nonempty` tells whether pairs with an empty key are
\* dropped as well
FormContract(nonempty) ==
    (/\ filt'.op = "remove_post_data_parameters"
     /\ filt.request.method = "POST"
     /\ filt.request.body.kind = "form"
     /\ ~IsJson(filt.request)) =>
        LET in == Pairs(filt.request.body)
            out == Pairs(filt'.request.body)
            Kept(k) == k \notin filt.names /\ (nonempty => k # "")
        IN /\ \A sg \in SegmentInputs :
                 ValuesOf(out, sg.k) =
                     IF Kept(sg.k) THEN ValuesOf(in, sg.k) ELSE <<>>
           /\ KeyOrder(out) = SelectSeq(KeyOrder(in), Kept)
           /\ \A i \in 1..Len(out) : out[i].sep
           /\ filt'.request.body.kind = "form"
           /\ filt'.request.headers = filt.request.headers
           /\ filt'.request.uri = filt.request.uri

(* C17 as stated: on a POST request with a non-JSON, non-stream body,
   remove_post_data_parameters returns the pairs whose key is not named,
   preserving key order and every value of multi-valued keys, and strips
   only the named keys. *)
C17_Original == [][FormContract(FALSE)]_vars

(* C17: on a POST request with a non-JSON, non-stream body,
   remove_post_data_parameters returns the pairs whose key is non-empty and
   not named, written key=value, preserving the order of the keys' first
   occurrences and every value of multi-valued keys in order. *)
C17_FormPairsKept == [][FormContract(TRUE)]_vars

\* a named key was stripped from a form body and a key with two values kept
C17_Witness ==
    /\ filt.op = "remove_post_data_parameters"
    /\ filt.before.method = "POST"
    /\ filt.before.body.kind = "form"
    /\ NamedPresent(filt.op, filt.before, filt.names)
    /\ \E sg \in SegmentInputs :
          Len(ValuesOf(Pairs(filt.request.body), sg.k)) = 2

\* the request filters f with f(f(R)) = f(R) for every R
IdempotentFilter(f) ==
    \A r \in RequestInputs :
        ApplyRequestFilter(f, ApplyRequestFilter(f, r)) =
            ApplyRequestFilter(f, r)

(* C18: with an identity or idempotent request filter, `R in cassette` is
   true iff some stored exchange matching R has play counter 0, which holds
   iff a play_response(R) that follows immediately returns a response
   instead of raising; and whenever can_play_response_for(R) is truthy the
   play_response(R) that follows immediately succeeds. *)
C18_ContainsIffPlayable ==
    [][IdempotentFilter(kwargs.before_record_request) =>
        LET c == cass["direct"]
        IN /\ last'.op = "__contains__" =>
                 (last'.ret = Returned("True")
                     <=> Unplayed(c, last'.request) # {})
           /\ (/\ last.op = "__contains__"
               /\ last'.op = "play_response"
               /\ last'.request = last.request) =>
                 (last.ret = Returned("True") <=> last'.ret.kind = "return")
           /\ (/\ last.op = "can_play_response_for"
               /\ IsTruthy(last.ret)
               /\ last'.op = "play_response"
               /\ last'.request = last.request) =>
                 last'.ret.kind = "return"]_vars

\* a membership test answered True although an exchange matching the
\* request has been played already
C18_Witness ==
    /\ Held("direct")
    /\ IdempotentFilter(kwargs.before_record_request)
    /\ last.op = "__contains__" /\ last.ret = Returned("True")
    /\ Matches(cass["direct"], last.request)
         # Unplayed(cass["direct"], last.request)

(* C19: a scope whose cassette was loaded from existing storage and in which
   no append occurs never rewrites storage: dirty is false when load ends,
   stays false over every play_response, responses_of,
   can_play_response_for and membership test of the scope, and the save at
   scope exit then writes nothing and leaves storage as it is. *)
C19_ReplayOnlyNeverWrites ==
    [][\A d \in Decorators :
        /\ (finish[d] = "None" /\ finish'[d] = "generator" /\ disk.exists) =>
              /\ cass'[d].rewound
              /\ ~cass'[d].dirty
        /\ (/\ finish[d] = "generator" /\ finish'[d] = "generator"
            /\ cass[d].rewound /\ ~cass[d].dirty
            /\ ~(last'.op = "append" /\ DecoratorOf(last'.who) = d)) =>
              /\ ~cass'[d].dirty
              /\ cass'[d].data = cass[d].data
        /\ (/\ finish[d] = "generator" /\ finish'[d] = "None"
            /\ cass[d].rewound /\ ~cass[d].dirty) =>
              /\ "write" \notin last'.did
              /\ disk' = disk]_vars

\* a scope over stored exchanges has been left without a write
C19_Witness ==
    /\ last.op = "__exit__"
    /\ "save" \in last.did /\ "write" \notin last.did
    /\ disk.exists /\ Len(disk.requests) > 0
    /\ finish[last.arg] = "None"

(* C20: after any sequence of POST /rides and DELETE /rides/<id> executed
   one after the other with non-negative ETA results, every stored ride has
   dropoff_time = pickup_time + travel_time, and for stored rides a, b with
   a.id < b.id, b.pickup_time >= a.dropoff_time; a ride created while other
   rides exist is scheduled from the dropoff time of the ride with the
   highest id plus the ETA from that ride's end to the new pickup; a POST
   whose form is invalid or whose ETA lookup fails returns 400 and adds no
   ride. *)
C20_RidesScheduledInOrder ==
    [][LET rides == ride.rides
           rides2 == ride'.rides
           resp == ride'.resp
       IN /\ \A a \in rides2 :
                a.dropoff_time = a.pickup_time + a.travel_time
          /\ \A a \in rides2, b \in rides2 :
                a.id < b.id => b.pickup_time >= a.dropoff_time
          /\ (resp.op = "POST" /\ resp.status = 201 /\ rides # {}) =>
                \E b \in rides2 \ rides :
                    /\ rides2 = rides \cup {b}
                    /\ \A a \in rides :
                          /\ a.id < b.id
                          /\ (\A q \in rides : q.id <= a.id) =>
                                b.pickup_time =
                                    a.dropoff_time + resp.eta[1][1]
          /\ (resp.op = "POST" /\ (~resp.valid \/ resp.eta = NoEta)) =>
                resp.status = 400 /\ rides2 = rides]_vars

\* a ride has just been created behind another one, after a ride was
\* deleted: two rides are stored, one of them with id 3
C20_Witness ==
    /\ ride # NoRideApi
    /\ ride.resp.op = "POST" /\ ride.resp.status = 201
    /\ Cardinality(ride.rides) = 2
    /\ \E r \in ride.rides : r.id = 3
    /\ \E r \in ride.rides : r.travel_time > 0
====
